---- MODULE Spec2Model ----
(***************************************************************************)
(* Model of src/app.js: the canvas particle system behind the heart       *)
(* button.  One action per handler the browser can run: the load          *)
(* listener, the requestAnimationFrame callback (animateParticles), the   *)
(* click handler (activateHeart), the resize listener (resizeCanvas) and  *)
(* the setTimeout callbacks.                                               *)
(*                                                                         *)
(* Numbers.  JavaScript numbers are doubles; the model uses exact          *)
(* fixed-point integers instead:                                           *)
(*   alpha                    in units of 0.001    (1 = 1000)              *)
(*   x, y, size, velocity     in units of 0.000001 (1 = 1000000)           *)
(* A product with 0.99 or 0.995 is truncated toward zero to the unit.      *)
(***************************************************************************)
EXTENDS Integers, Sequences, FiniteSets, TLC

\* ------------------------------------------------------------------ bounds
\* Spec explores every interleaving of the handlers over a short horizon:
\* at most MaxFrames bodies of animateParticles (the one the load listener
\* runs included), MaxAmbient successful trials of Math.random() < 0.6 and
\* MaxEvents other events (clicks, resize events, layout changes, timeouts).
MaxFrames == 3
MaxAmbient == 1
MaxEvents == 3
\* RunSpec lets the animation run on without limit: RunClicks clicks, each
\* at most MaxGap frames after the previous one, and no successful trial;
\* timeouts, resize events and layout changes arrive once the animation
\* has come to rest.
RunClicks == 3
MaxGap == 1
\* The counter of frames since the last click saturates here.
RunCap == 100

\* --------------------------------------------------------- program numbers
Unit == 1000 * 1000
AlphaOne == 1000
FadeStep == 5
DrainStep == 10
BurstCount == 80
MinSize == 100000
SizeBase == 500000
SizeSpan == 1500000
SpeedBase == 100000
SpeedSpan == 400000
Gravity == 3000

Rose == "rgba(255, 107, 157, 1)"
Gold == "rgba(255, 215, 0, 1)"

\* v * num / den, truncated toward zero
MulFrac(v, num, den) ==
  IF v >= 0 THEN (v * num) \div den ELSE -(((-v) * num) \div den)

\* ------------------------------------------------------------ environment
\* What the DOM reports to resizeCanvas: window.devicePixelRatio (0 stands
\* for an undefined ratio), the canvas rectangle and the rectangle of
\* heartContainer, in CSS pixels.
Envs ==
  << [dpr |-> 1, cw |-> 800, ch |-> 600,
      left |-> 100, top |-> 50, width |-> 40, height |-> 40],
     [dpr |-> 2, cw |-> 375, ch |-> 667,
      left |-> 13, top |-> 20, width |-> 41, height |-> 39],
     [dpr |-> 0, cw |-> 1024, ch |-> 768,
      left |-> 100, top |-> 50, width |-> 40, height |-> 40] >>

\* Outcomes of the Math.random() calls of one Particle construction:
\* r for the size, s for the speed (both in thousandths, 0 <= r < 1), and
\* the direction as (cos, sin) of the angle, in thousandths.
\* c is the outcome of the colour trial.
Draws ==
  << [r |-> 0,   s |-> 0,   cos |-> 1000, sin |-> 0,     c |-> 0],
     [r |-> 999, s |-> 999, cos |-> 0,    sin |-> -1000, c |-> 950] >>

\* The random outcomes of the k-th construction of a burst: either every
\* construction draws Draws[1], or the constructions alternate.
BurstPatterns == 1 .. 2
BurstDraw(pat, k) == Draws[IF pat = 1 THEN 1 ELSE (k % 2) + 1]

VARIABLES
  heartCenter,       \* let heartCenter = {x, y}
  particles,         \* let particles = []
  animationFrameId,  \* let animationFrameId = null
  heartActive,       \* let heartActive = false
  rafPending,        \* number of frame callbacks the browser holds
  loaded,            \* the load event has been delivered
  env,               \* index in Envs of the current layout
  canvas,            \* [w, h, scale]: canvas.width, canvas.height, ctx scale
  heartClass,        \* heartContainer.classList contains 'heart-active'
  btn,               \* [text, style] of surpriseBtn
  btnTimers,         \* pending 3000 ms timeouts of activateHeart
  loadPhase,         \* the loading screen and its two timeouts
  nextId,            \* identity of the next Particle object
  calls,             \* the stages of the last animateParticles body, in order
  log,               \* per particle handled by the last body, in order
  lastOp,            \* the handler that ran last
  run,               \* frames since the last click (saturating)
  frames,            \* bodies of animateParticles run (saturating)
  clicks, ambient, events   \* counters for the bounds

vars == << heartCenter, particles, animationFrameId, heartActive, rafPending,
           loaded, env, canvas, heartClass, btn, btnTimers, loadPhase,
           nextId, calls, log, lastOp, run, frames, clicks, ambient,
           events >>

\* ------------------------------------------------------------- Particle
\* new Particle(x, y, color) with the random outcomes d
Particle(id, x, y, color, d) ==
  LET size  == (d.r * SizeSpan) \div 1000 + SizeBase
      speed == (d.s * SpeedSpan) \div 1000 + SpeedBase
  IN [ id |-> id, x |-> x, y |-> y, size |-> size, color |-> color,
       alpha |-> AlphaOne,
       vx |-> MulFrac(d.cos * speed, 2, 1000),
       vy |-> MulFrac(d.sin * speed, 2, 1000) ]

\* update with a radius that grows (1.005 for 0.995)
updateGrowing(p) ==
  LET vx == MulFrac(p.vx, 99, 100)
      vy == MulFrac(p.vy, 99, 100) + Gravity
  IN [ p EXCEPT !.vx = vx, !.vy = vy,
                !.x = p.x + vx, !.y = p.y + vy,
                !.alpha = p.alpha - FadeStep,
                !.size = MulFrac(p.size, 1005, 1000) ]

\* Particle.update()
update(p) ==
  LET vx == MulFrac(p.vx, 99, 100)
      vy == MulFrac(p.vy, 99, 100) + Gravity
  IN [ p EXCEPT !.vx = vx, !.vy = vy,
                !.x = p.x + vx, !.y = p.y + vy,
                !.alpha = p.alpha - FadeStep,
                !.size = MulFrac(p.size, 995, 1000) ]

\* globalAlpha without the clamp of Math.max
globalAlphaRaw(p) == p.alpha

\* ctx.globalAlpha of Particle.draw()
globalAlpha(p) == IF p.alpha > 0 THEN p.alpha ELSE 0

\* Particle.draw(): the record of one draw call
draw(p, removed) ==
  [ id |-> p.id, alpha |-> p.alpha, size |-> p.size,
    paint |-> globalAlpha(p), removed |-> removed ]

\* particles.splice(i, 1)
splice(ps, i) == [ k \in 1 .. Len(ps) - 1 |-> IF k < i THEN ps[k] ELSE ps[k + 1] ]

\* ------------------------------------------------------ animateParticles
\* the test of line 97 with < for <=
activeGoneStrict(p) == p.alpha < 0 \/ p.size < MinSize

\* the test of line 97, after update and draw
activeGone(p) == p.alpha <= 0 \/ p.size <= MinSize

\* the test of line 107 made on the size
drainGoneSize(p) == p.size <= MinSize

\* the test of line 107
drainGone(p) == p.alpha <= 0

\* the drain branch without its extra fade
drainFadeNone(p) == p

\* line 104: particles[i].alpha -= 0.01
drainFade(p) == [ p EXCEPT !.alpha = p.alpha - DrainStep ]

\* the iteration with the index lowered once more after a removal, so that
\* the particle below a removed one is passed over
activeIterSkip(st) ==
  LET p    == update(st.particles[st.i])
      gone == activeGone(p)
  IN [ particles |-> IF gone THEN splice(st.particles, st.i)
                     ELSE [ st.particles EXCEPT ![st.i] = p ],
       log |-> Append(st.log, draw(p, gone)),
       i |-> IF gone THEN st.i - 2 ELSE st.i - 1 ]

\* lines 92-99: one iteration of the loop of the active branch.  st is the
\* state of the loop: the list, the draw calls made so far and the index i
\* (1-based)
activeIter(st) ==
  LET p    == update(st.particles[st.i])
      gone == activeGone(p)
  IN [ particles |-> IF gone THEN splice(st.particles, st.i)
                     ELSE [ st.particles EXCEPT ![st.i] = p ],
       log |-> Append(st.log, draw(p, gone)),
       i |-> st.i - 1 ]

\* lines 91-100: for (i = particles.length - 1; i >= 0; i--): up to n
\* iterations from st, stopping when the loop condition fails; the
\* iterations are run in order, n \div 2 of them and then the rest
RECURSIVE activeLoop(_, _)
activeLoop(st, n) ==
  IF st.i < 1 \/ n = 0 THEN st
  ELSE IF n = 1 THEN activeIter(st)
  ELSE activeLoop(activeLoop(st, n \div 2), n - n \div 2)

\* lines 104-109: one iteration of the loop of the drain branch
drainIter(st) ==
  LET p    == update(drainFade(st.particles[st.i]))
      gone == drainGone(p)
  IN [ particles |-> IF gone THEN splice(st.particles, st.i)
                     ELSE [ st.particles EXCEPT ![st.i] = p ],
       log |-> Append(st.log, draw(p, gone)),
       i |-> st.i - 1 ]

\* lines 103-110
RECURSIVE drainLoop(_, _)
drainLoop(st, n) ==
  IF st.i < 1 \/ n = 0 THEN st
  ELSE IF n = 1 THEN drainIter(st)
  ELSE drainLoop(drainLoop(st, n \div 2), n - n \div 2)

\* the state in which a loop over ps starts
loopStart(ps) == [ particles |-> ps, log |-> << >>, i |-> Len(ps) ]

\* line 85: the ambient colour
ambientColor(d) == IF d.c < 900 THEN Rose ELSE Gold

\* line 150: the burst colour
burstColor(d) == IF d.c < 700 THEN Rose ELSE Gold

\* the ambient particle created at the origin of the canvas
pushAtOrigin(ps, center, d, id) ==
  Append(ps, Particle(id, 0, 0, ambientColor(d), d))

\* lines 85-87: the ambient particle, pushed onto ps
push(ps, center, d, id) ==
  Append(ps, Particle(id, center.x, center.y, ambientColor(d), d))

\* lines 82-111: the spawn/update/draw/remove pass.  spawn = 0 when the
\* trial of line 84 fails, else the index in Draws of the outcomes.
simulate(ps, active, center, spawn, id) ==
  IF active
  THEN LET ps0 == IF spawn = 0 THEN ps ELSE push(ps, center, Draws[spawn], id)
       IN activeLoop(loopStart(ps0), Len(ps0))
  ELSE drainLoop(loopStart(ps), Len(ps))

\* the stages with the request made last
stagesRequestLast == << "fillRect", "simulate", "requestAnimationFrame" >>

\* lines 74-81: the order of the stages of one body
stages == << "requestAnimationFrame", "fillRect", "simulate" >>

\* the handle requestAnimationFrame returns; app.js stores it and never
\* reads it, so every handle is modelled by "handle"
nextHandle(h) == "handle"

\* a body that registers no callback
requestedNone == 1 - 1

\* callbacks one body of animateParticles registers (line 76)
requested == 1

\* ---------------------------------------------------------- resizeCanvas
devicePixelRatio(e) == IF e.dpr = 0 THEN 1 ELSE e.dpr

\* the centre taken at the corner of the rectangle (width/2 and height/2
\* left out)
centerOfCorner(e) ==
  [ x |-> e.left * Unit, y |-> e.top * Unit ]

\* lines 131-133
centerOf(e) ==
  [ x |-> e.left * Unit + (e.width * Unit) \div 2,
    y |-> e.top * Unit + (e.height * Unit) \div 2 ]

\* lines 118-124; assigning canvas.width resets the transform, so the
\* scale after ctx.scale(dpr, dpr) is dpr
canvasOf(e) ==
  [ w |-> e.cw * devicePixelRatio(e), h |-> e.ch * devicePixelRatio(e),
    scale |-> devicePixelRatio(e) ]

\* ---------------------------------------------------------- activateHeart
\* the burst with the loop bound off by one (i < 79)
burstShort(ps, center, pat, id) ==
  ps \o [ j \in 1 .. BurstCount - 1 |->
            Particle(id + j - 1, center.x, center.y,
                     burstColor(BurstDraw(pat, j - 1)), BurstDraw(pat, j - 1)) ]

\* lines 149-152: the burst; the k-th iteration (k from 0) pushes one
\* Particle, so the list grows by BurstCount elements at its end
burst(ps, center, pat, id) ==
  ps \o [ j \in 1 .. BurstCount |->
            Particle(id + j - 1, center.x, center.y,
                     burstColor(BurstDraw(pat, j - 1)), BurstDraw(pat, j - 1)) ]

TextInitial == "initial"
TextBeats == "The Heart Beats for You!"
TextHide == "Click to Hide The Magic"
TextReveal == "Reveal The Heart of The Message"
StyleInitial == "initial"
StyleHide == "linear-gradient(45deg, #cc4477, #aa2255)"
StyleReveal == "linear-gradient(45deg, #a77dff, #6236ff)"

\* ------------------------------------------------------------------ state
\* whether the markup gives heartContainer the class 'heart-active'; the
\* page is not among the source files, and the system is said to start Idle
classInMarkup == FALSE

Init ==
  /\ heartCenter = [ x |-> 0, y |-> 0 ]
  /\ particles = << >>
  /\ animationFrameId = "null"
  /\ heartActive = FALSE
  /\ rafPending = 0
  /\ loaded = FALSE
  /\ env = 1
  /\ canvas = [ w |-> 300, h |-> 150, scale |-> 1 ]
  /\ heartClass = classInMarkup
  /\ btn = [ text |-> TextInitial, style |-> StyleInitial ]
  /\ btnTimers = 0
  /\ loadPhase = "loading"
  /\ nextId = 1
  /\ calls = << >>
  /\ log = << >>
  /\ lastOp = "init"
  /\ run = 0
  /\ frames = 0
  /\ clicks = 0 /\ ambient = 0 /\ events = 0

\* the user may still click (RunSpec)
InWindow == run <= MaxGap

\* the animation has come to rest after the last click (RunSpec)
Quiet == run = RunCap /\ particles = << >>

\* One body of animateParticles with the trial outcome spawn.
Body(center, spawn) ==
  LET res == simulate(particles, heartActive, center, spawn, nextId)
  IN /\ animationFrameId' = nextHandle(animationFrameId)
     /\ particles' = res.particles
     /\ log' = res.log
     /\ calls' = stages
     /\ nextId' = IF heartActive /\ spawn # 0 THEN nextId + 1 ELSE nextId
     /\ ambient' = IF heartActive /\ spawn # 0 THEN ambient + 1 ELSE ambient
     /\ run' = IF clicks = 0 \/ run >= RunCap THEN run ELSE run + 1
     /\ frames' = IF frames >= MaxFrames THEN frames ELSE frames + 1

\* the outcomes the trial of line 84 may have; may says whether the bounds
\* still allow a success
Trials(may) ==
  {0} \cup (IF heartActive /\ may THEN 1 .. Len(Draws) ELSE {})

\* the browser runs the callback registered with requestAnimationFrame
FrameCallback(go, may) ==
  /\ go
  /\ rafPending > 0
  /\ \E spawn \in Trials(may) : Body(heartCenter, spawn)
  /\ rafPending' = (rafPending - 1) + requested
  /\ lastOp' = "frame"
  /\ UNCHANGED << heartCenter, heartActive, loaded, env, canvas, heartClass,
                  btn, btnTimers, loadPhase, clicks, events >>

\* lines 174-187: the load listener.  The page is loaded before the user
\* can reach the button.
Load ==
  /\ ~loaded
  /\ loaded' = TRUE
  /\ heartCenter' = centerOf(Envs[env])
  /\ canvas' = canvasOf(Envs[env])
  /\ \E spawn \in Trials(FALSE) : Body(centerOf(Envs[env]), spawn)
  /\ rafPending' = rafPending + requested
  /\ loadPhase' = "timer2000"
  /\ lastOp' = "load"
  /\ UNCHANGED << heartActive, env, heartClass, btn, btnTimers, clicks,
                  events >>

\* lines 180-186: the 2000 ms timeout
LoadTimer(go) ==
  /\ go
  /\ loadPhase = "timer2000"
  /\ loadPhase' = "timer1000"
  /\ lastOp' = "loadTimer"
  /\ events' = events + 1
  /\ UNCHANGED << heartCenter, particles, animationFrameId, heartActive,
                  rafPending, loaded, env, canvas, heartClass, btn,
                  btnTimers, nextId, calls, log, run, frames, clicks,
                  ambient >>

\* line 185: the 1000 ms timeout
RemoveTimer(go) ==
  /\ go
  /\ loadPhase = "timer1000"
  /\ loadPhase' = "removed"
  /\ lastOp' = "removeTimer"
  /\ events' = events + 1
  /\ UNCHANGED << heartCenter, particles, animationFrameId, heartActive,
                  rafPending, loaded, env, canvas, heartClass, btn,
                  btnTimers, nextId, calls, log, run, frames, clicks,
                  ambient >>

\* line 190: the resize listener
Resize(go) ==
  /\ go
  /\ loaded
  /\ events' = events + 1
  /\ heartCenter' = centerOf(Envs[env])
  /\ canvas' = canvasOf(Envs[env])
  /\ lastOp' = "resize"
  /\ UNCHANGED << particles, animationFrameId, heartActive, rafPending,
                  loaded, env, heartClass, btn, btnTimers, loadPhase, nextId,
                  calls, log, run, frames, clicks, ambient >>

\* the layout changes (scroll, zoom, reflow) to the next of Envs; no
\* handler of app.js runs
EnvChange(go) ==
  /\ go
  /\ loaded
  /\ events' = events + 1
  /\ env' = (env % Len(Envs)) + 1
  /\ lastOp' = "env"
  /\ UNCHANGED << heartCenter, particles, animationFrameId, heartActive,
                  rafPending, loaded, canvas, heartClass, btn, btnTimers,
                  loadPhase, nextId, calls, log, run, frames, clicks,
                  ambient >>

\* lines 138-159: activateHeart with heartActive false
Activate(go) ==
  /\ go
  /\ loaded
  /\ ~heartActive
  /\ clicks' = clicks + 1
  /\ heartActive' = TRUE
  /\ heartClass' = TRUE
  /\ btn' = [ btn EXCEPT !.text = TextBeats ]
  /\ heartCenter' = centerOf(Envs[env])
  /\ canvas' = canvasOf(Envs[env])
  /\ \E pat \in BurstPatterns :
       particles' = burst(particles, centerOf(Envs[env]), pat, nextId)
  /\ nextId' = nextId + BurstCount
  /\ btnTimers' = btnTimers + 1
  /\ run' = 0
  /\ lastOp' = "activate"
  /\ events' = events + 1
  /\ UNCHANGED << animationFrameId, rafPending, loaded, env, loadPhase,
                  calls, log, frames, ambient >>

\* the deactivation without line 164: the class stays on heartContainer
DeactivateKeepsClass(go) ==
  /\ go
  /\ loaded
  /\ heartActive
  /\ clicks' = clicks + 1
  /\ heartActive' = FALSE
  /\ btn' = [ text |-> TextReveal, style |-> StyleReveal ]
  /\ run' = 0
  /\ lastOp' = "deactivate"
  /\ events' = events + 1
  /\ UNCHANGED << heartCenter, particles, animationFrameId, rafPending,
                  loaded, env, canvas, heartClass, btnTimers, loadPhase,
                  nextId, calls, log, frames, ambient >>

\* activateHeart with the call of resizeCanvas made before the test of
\* heartActive, so that a deactivation recomputes heartCenter too
DeactivateRecentre(go) ==
  /\ go
  /\ loaded
  /\ heartActive
  /\ clicks' = clicks + 1
  /\ heartActive' = FALSE
  /\ heartClass' = FALSE
  /\ btn' = [ text |-> TextReveal, style |-> StyleReveal ]
  /\ heartCenter' = centerOf(Envs[env])
  /\ canvas' = canvasOf(Envs[env])
  /\ run' = 0
  /\ lastOp' = "deactivate"
  /\ events' = events + 1
  /\ UNCHANGED << particles, animationFrameId, rafPending, loaded, env,
                  btnTimers, loadPhase, nextId, calls, log, frames, ambient >>

\* lines 161-168: activateHeart with heartActive true
Deactivate(go) ==
  /\ go
  /\ loaded
  /\ heartActive
  /\ clicks' = clicks + 1
  /\ heartActive' = FALSE
  /\ heartClass' = FALSE
  /\ btn' = [ text |-> TextReveal, style |-> StyleReveal ]
  /\ run' = 0
  /\ lastOp' = "deactivate"
  /\ events' = events + 1
  /\ UNCHANGED << heartCenter, particles, animationFrameId, rafPending,
                  loaded, env, canvas, btnTimers, loadPhase, nextId, calls,
                  log, frames, ambient >>

\* lines 155-159: the 3000 ms timeout of an activation
ButtonTimer(go) ==
  /\ go
  /\ btnTimers > 0
  /\ btnTimers' = btnTimers - 1
  /\ btn' = [ text |-> TextHide, style |-> StyleHide ]
  /\ lastOp' = "buttonTimer"
  /\ events' = events + 1
  /\ UNCHANGED << heartCenter, particles, animationFrameId, heartActive,
                  rafPending, loaded, env, canvas, heartClass, loadPhase,
                  nextId, calls, log, run, frames, clicks, ambient >>

\* Every interleaving, over a short horizon.
Next ==
  \/ Load
  \/ FrameCallback(frames < MaxFrames, ambient < MaxAmbient)
  \/ Activate(events < MaxEvents)
  \/ Deactivate(events < MaxEvents)
  \/ ButtonTimer(events < MaxEvents)
  \/ LoadTimer(events < MaxEvents)
  \/ RemoveTimer(events < MaxEvents)
  \/ Resize(events < MaxEvents)
  \/ EnvChange(events < MaxEvents)

Spec == Init /\ [][Next]_vars

\* The animation runs on; clicks come early, the rest once it is at rest.
RunNext ==
  \/ Load
  \/ FrameCallback(TRUE, FALSE)
  \/ Activate(clicks < RunClicks /\ InWindow)
  \/ Deactivate(clicks < RunClicks /\ InWindow)
  \/ ButtonTimer(Quiet)
  \/ LoadTimer(Quiet)
  \/ RemoveTimer(Quiet)
  \/ Resize(events < MaxEvents /\ Quiet)
  \/ EnvChange(events < MaxEvents /\ Quiet)

RunSpec == Init /\ [][RunNext]_vars

\* A step of RunNext that sets lastOp to "frame" is a step of FrameCallback,
\* which is enabled whenever a callback is pending.
FrameStep == rafPending > 0 /\ lastOp' = "frame"

\* the browser keeps delivering the pending frame callback
FairSpec == RunSpec /\ WF_lastOp(FrameStep)

\* the oldest particle of the list is removed by the next body in active
\* mode: its opacity is one step of update above 0
Dying == particles # << >> /\ particles[1].alpha <= FadeStep

\* The animation runs on and the user clicks early, as in RunSpec; the trial
\* of line 84 may succeed in the frames that remove the oldest particle.
TurnoverNext ==
  \/ Load
  \/ FrameCallback(TRUE, ambient < MaxAmbient /\ Dying)
  \/ Activate(clicks < RunClicks /\ InWindow)
  \/ Deactivate(clicks < RunClicks /\ InWindow)

TurnoverSpec == Init /\ [][TurnoverNext]_vars

\* ------------------------------------------------------------------ claims
\* a body of animateParticles produced the state (op is lastOp)
BodyRan(op) == op = "frame" \/ op = "load"

\* the particle the k-th draw call of a body is about, in the list ps0 the
\* loop started with: the loop runs from the end of the list
StartIndex(lg, k) == Len(lg) + 1 - k

\* C1: a call of activateHeart that finds heartActive false appends exactly
\* 80 particles to the list in that same step, leaves the particles already
\* there as they are, and creates each new one, untouched by any frame, at
\* the heartCenter the call has just recomputed from the layout.
C1_BurstOnActivation ==
  [][ (~heartActive /\ heartActive') =>
        /\ Len(particles') = Len(particles) + 80
        /\ SubSeq(particles', 1, Len(particles)) = particles
        /\ heartCenter' = centerOf(Envs[env])
        /\ \A i \in Len(particles) + 1 .. Len(particles') :
             /\ particles'[i].x = heartCenter'.x
             /\ particles'[i].y = heartCenter'.y
             /\ particles'[i].alpha = 1000
        /\ calls' = calls /\ log' = log ]_vars

\* C1 witness: on, off, on with no frame in between: the second activation
\* has added another 80 to the 80 still live.
C1_Witness ==
  /\ lastOp = "activate"
  /\ clicks = 3
  /\ Len(particles) = 160
  /\ \A i \in 1 .. Len(particles) : particles[i].alpha = 1000

\* C2 as stated: one body lowers the opacity of every particle it handles
\* by 0.005 when heartActive is true and by 0.01 when it is false.
C2_AsClaimed ==
  [][ BodyRan(lastOp') =>
        /\ Len(log') >= Len(particles)
        /\ \A k \in 1 .. Len(log') :
             LET j == StartIndex(log', k)
                 before == IF j <= Len(particles) THEN particles[j].alpha ELSE 1000
             IN before - log'[k].alpha = (IF heartActive THEN 5 ELSE 10) ]_vars

\* C2 amended: one body lowers the opacity of every particle in the list by
\* 0.005 when heartActive is true and by 0.015 when it is false (the 0.01
\* of line 104 and the 0.005 of update).
C2_FadePerFrame ==
  [][ BodyRan(lastOp') =>
        /\ Len(log') >= Len(particles)
        /\ \A k \in 1 .. Len(log') :
             LET j == StartIndex(log', k)
                 before == IF j <= Len(particles) THEN particles[j].alpha ELSE 1000
             IN /\ j <= Len(particles) => log'[k].id = particles[j].id
                /\ before - log'[k].alpha = (IF heartActive THEN 5 ELSE 15) ]_vars

\* C2 witness: one frame active, the deactivation, one frame draining.
C2_Witness ==
  /\ lastOp = "frame"
  /\ ~heartActive
  /\ Len(log) = 80
  /\ \A k \in 1 .. Len(log) : log[k].alpha = 980

\* C3: every particle in the list has opacity > 0 and radius > 0.1, after
\* every body of animateParticles and after every other handler.
C3_LiveParticles ==
  \A i \in 1 .. Len(particles) :
    particles[i].alpha > 0 /\ particles[i].size > 100000

\* C3 witness: a frame in active mode that removed some particles and
\* kept others.
C3_Witness ==
  /\ lastOp = "frame"
  /\ heartActive
  /\ particles # << >>
  /\ \E k \in 1 .. Len(log) : log[k].removed

\* C4 as stated: a frame with heartActive false that starts with a
\* non-empty list ends with strictly fewer particles.
C4_AsClaimed ==
  [][ (lastOp' = "frame" /\ ~heartActive /\ particles # << >>) =>
        Len(particles') < Len(particles) ]_vars

\* the particles of ps whose opacity is above a
AboveAlpha(ps, a) == { i \in 1 .. Len(ps) : ps[i].alpha > a }

\* C4 amended: a frame with heartActive false never adds a particle: it
\* removes exactly the particles whose opacity at its start is <= 0.015 and
\* keeps the others, so the count never grows, and an empty list stays
\* empty.
C4_DrainNeverGrows ==
  [][ (lastOp' = "frame" /\ ~heartActive) =>
        /\ Len(particles') = Cardinality(AboveAlpha(particles, 15))
        /\ Len(particles') <= Len(particles)
        /\ particles = << >> => particles' = << >> ]_vars

\* C4 witness: a draining frame has removed the last particles.
C4_Witness ==
  /\ lastOp = "frame"
  /\ ~heartActive
  /\ particles = << >>
  /\ Len(log) = 80
  /\ \A k \in 1 .. Len(log) : log[k].removed

\* C5: after 100 consecutive frames with heartActive false the list is
\* empty, and no frame with heartActive false creates a particle.
C5_DrainTerminates ==
  /\ [](( ~heartActive /\ run >= 100 ) => particles = << >>)
  /\ [][ (lastOp' = "frame" /\ ~heartActive) => nextId' = nextId ]_vars

\* C5 witness: 100 frames have run since a deactivation.
C5_Witness ==
  /\ ~heartActive
  /\ clicks = 2
  /\ run >= 100
  /\ lastOp = "frame"

\* the draw calls of lg whose particle stayed in the list
Kept(lg) == SelectSeq(lg, LAMBDA e : ~e.removed)

\* C6: one body of animateParticles creates no particle when heartActive is
\* false and none or one when it is true; the one it creates is created at
\* the current heartCenter with opacity 1 (and then updated once, like the
\* rest of the list, before the body ends).
C6_AmbientSpawn ==
  [][ BodyRan(lastOp') =>
        LET created == nextId' - nextId
            p == particles'[Len(particles')]
        IN /\ Len(log') = Len(particles) + created
           /\ heartActive => created \in {0, 1}
           /\ ~heartActive => created = 0
           /\ created = 1 =>
                /\ p.id = nextId
                /\ \A j \in 1 .. Len(particles) : particles[j].id # p.id
                /\ p.x - p.vx = heartCenter.x
                /\ p.y - p.vy = heartCenter.y
                /\ p.alpha = 1000 - 5 ]_vars

\* C6 witness: the first frame after the burst has added one particle to
\* it, after a resize moved heartCenter away from where the burst was
\* created (both have been updated once).
C6_Witness ==
  /\ lastOp = "frame"
  /\ heartActive
  /\ ambient = 1
  /\ frames = 2
  /\ Len(particles) = 81
  /\ particles[81].x - particles[81].vx # particles[1].x - particles[1].vx

\* C7: no handler raises the radius or the opacity of a particle in the
\* list: a body of animateParticles leaves each particle it handles with a
\* radius and an opacity at most those it had, the particles it keeps carry
\* exactly those values, and every other handler leaves every particle of
\* the list as it is.
C7_NonIncreasing ==
  [][ IF BodyRan(lastOp')
      THEN /\ Len(log') >= Len(particles)
           /\ \A k \in 1 .. Len(log') :
                LET j == StartIndex(log', k)
                IN j <= Len(particles) =>
                     /\ log'[k].id = particles[j].id
                     /\ log'[k].alpha <= particles[j].alpha
                     /\ log'[k].size <= particles[j].size
           /\ Len(Kept(log')) = Len(particles')
           /\ \A i \in 1 .. Len(particles') :
                LET e == Kept(log')[Len(particles') + 1 - i]
                IN /\ particles'[i].id = e.id
                   /\ particles'[i].alpha = e.alpha
                   /\ particles'[i].size = e.size
      ELSE /\ Len(particles') >= Len(particles)
           /\ SubSeq(particles', 1, Len(particles)) = particles ]_vars

\* C7 witness: a particle has been through a frame in active mode, the
\* deactivation and a frame in drain mode.
C7_Witness ==
  /\ lastOp = "frame"
  /\ ~heartActive
  /\ particles # << >>
  /\ particles[1].alpha = 980
  /\ particles[1].size < 500000

\* C8 as stated: draw is issued only for particles whose opacity after the
\* update is positive, with paint alpha max(0, opacity).
C8_AsClaimed ==
  \A k \in 1 .. Len(log) :
    /\ log[k].alpha > 0
    /\ log[k].paint = (IF log[k].alpha > 0 THEN log[k].alpha ELSE 0)

\* C8 amended: draw is issued for every particle the body handles, also
\* for one whose opacity after the update is <= 0; the paint alpha of every
\* draw is max(0, opacity), so such a particle is drawn with paint alpha 0,
\* and it is removed in that frame.
C8_DrawClamped ==
  \A k \in 1 .. Len(log) :
    /\ log[k].paint = (IF log[k].alpha > 0 THEN log[k].alpha ELSE 0)
    /\ log[k].alpha <= 0 => (log[k].paint = 0 /\ log[k].removed)

\* C8 witness: a body has drawn a particle whose opacity is below 0.
C8_Witness ==
  /\ lastOp = "frame"
  /\ \E k \in 1 .. Len(log) : log[k].alpha < 0

\* C9 as stated: overlay, then the pass, then the request for the next
\* frame.
C9_AsClaimed ==
  BodyRan(lastOp) => calls = << "fillRect", "simulate", "requestAnimationFrame" >>

\* C9 amended: a body of animateParticles first requests the next frame
\* callback, then paints the overlay, then runs the spawn/update/draw/remove
\* pass.
C9_RequestFirst ==
  BodyRan(lastOp) => calls = << "requestAnimationFrame", "fillRect", "simulate" >>

\* C9 witness: a frame callback has run its pass over a non-empty list.
C9_Witness ==
  /\ lastOp = "frame"
  /\ log # << >>
  /\ calls # << >>

\* C10: once the load listener has run, exactly one frame callback is
\* pending in every state, whatever clicks, resizes and timeouts happen, and
\* as the browser keeps delivering the pending callback a frame runs again
\* after every one of them.
C10_LoopNeverStops ==
  /\ [](loaded => rafPending = 1)
  /\ [](loaded => <>(lastOp = "frame"))

\* C10 witness: a frame has run after three clicks and all the timeouts.
C10_Witness ==
  /\ lastOp = "frame"
  /\ rafPending = 1
  /\ clicks = 3
  /\ btnTimers = 0
  /\ loadPhase = "removed"

\* the handler that ran last executed resizeCanvas: the load listener
\* (line 175), activateHeart with heartActive false (line 146) and the
\* resize listener (line 190)
RanResize(op) == op = "load" \/ op = "activate" \/ op = "resize"

\* C11: every execution of resizeCanvas leaves heartCenter at the centre of
\* the rectangle of heartContainer, (left + width/2, top + height/2),
\* whatever the device pixel ratio and the canvas rectangle are; for the
\* rectangle left 100, top 50, width 40, height 40 that is (120, 70).
C11_CenterOfRect ==
  [][ RanResize(lastOp') =>
        LET e == Envs[env]
        IN /\ 2 * heartCenter'.x = (2 * e.left + e.width) * 1000000
           /\ 2 * heartCenter'.y = (2 * e.top + e.height) * 1000000
           /\ (e.left = 100 /\ e.top = 50 /\ e.width = 40 /\ e.height = 40) =>
                heartCenter' = [ x |-> 120 * 1000000, y |-> 70 * 1000000 ] ]_vars

\* C11 witness: the resize listener has run in the layout with an undefined
\* device pixel ratio and a 1024 x 768 canvas, whose rectangle of
\* heartContainer is the one of the first layout, after heartCenter had been
\* computed in the first layout at load: heartCenter is (120, 70) again.
C11_Witness ==
  /\ lastOp = "resize"
  /\ env = 3
  /\ canvas = [ w |-> 1024, h |-> 768, scale |-> 1 ]
  /\ heartCenter = [ x |-> 120 * 1000000, y |-> 70 * 1000000 ]

\* C12: a step changes heartCenter only if its handler executes
\* resizeCanvas: a frame of animateParticles, a deactivation, the timeouts
\* and a change of the layout leave heartCenter as it is.  The resize
\* listener, which is resizeCanvas alone, leaves the list of particles and
\* heartActive as they are, and every handler that executes resizeCanvas
\* leaves every particle that was in the list in the list, where it was.
C12_CenterWrittenByResize ==
  [][ /\ heartCenter' # heartCenter => RanResize(lastOp')
      /\ lastOp' \in { "frame", "deactivate", "buttonTimer", "loadTimer",
                       "removeTimer", "env" } => heartCenter' = heartCenter
      /\ lastOp' = "resize" =>
           /\ particles' = particles
           /\ heartActive' = heartActive
      /\ RanResize(lastOp') =>
           /\ Len(particles') >= Len(particles)
           /\ \A i \in 1 .. Len(particles) :
                /\ particles'[i].id = particles[i].id
                /\ particles'[i].x = particles[i].x
                /\ particles'[i].y = particles[i].y ]_vars

\* C12 witness: the layout moved and the resize listener ran while the 80
\* particles of the burst were live, then a frame ran: heartCenter is still
\* the centre the resize listener computed, the centre of the second
\* layout, and the particles still move from the centre they were created
\* at, the centre of the first layout.
C12_Witness ==
  /\ lastOp = "frame"
  /\ heartActive
  /\ env = 2
  /\ heartCenter = [ x |-> 33500000, y |-> 39500000 ]
  /\ Len(particles) = 80
  /\ particles[1].x - particles[1].vx = 120 * 1000000

\* C13: a body of animateParticles handles every particle that is in the
\* list when its loop starts (the one it has just created included) exactly
\* once, from the last to the first: each is updated once (one step of
\* fade, one of shrinking), drawn once and tested for removal once,
\* however many are removed on the way, and the list is left with exactly
\* the particles whose test failed, in their order.
C13_EachParticleOnce ==
  [][ BodyRan(lastOp') =>
        \E n \in { Len(particles) + (nextId' - nextId) } :
        \E kept \in { Kept(log') } :
           /\ \A i \in 1 .. Len(particles) - 1 :
                particles[i].id < particles[i + 1].id
           /\ Len(log') = n
           /\ \A k \in 1 .. Len(log') :
                LET j == n + 1 - k
                    e == log'[k]
                IN /\ IF j <= Len(particles)
                      THEN /\ e.id = particles[j].id
                           /\ e.alpha = particles[j].alpha
                                          - (IF heartActive THEN 5 ELSE 15)
                           /\ e.size = (particles[j].size * 995) \div 1000
                      ELSE /\ e.id = nextId
                           /\ e.alpha = 1000 - 5
                   /\ e.removed <=>
                        IF heartActive
                        THEN e.alpha <= 0 \/ e.size <= 100000
                        ELSE e.alpha <= 0
           /\ Len(particles') = Len(kept)
           /\ \A i \in 1 .. Len(particles') :
                LET e == kept[Len(kept) + 1 - i]
                IN /\ particles'[i].id = e.id
                   /\ particles'[i].alpha = e.alpha
                   /\ particles'[i].size = e.size ]_vars

\* C13 witness: a frame in active mode over two bursts of different age
\* and a particle created in that same frame: the 80 of the older burst, at
\* the head of the list, were removed, and the 80 of the younger burst and
\* the new particle, behind them, were each handled and kept.
C13_Witness ==
  /\ lastOp = "frame"
  /\ heartActive
  /\ Len(log) = 161
  /\ log[1].id = nextId - 1
  /\ log[1].alpha = 995
  /\ ~log[1].removed
  /\ ~log[81].removed
  /\ log[82].removed
  /\ log[161].removed
  /\ Len(particles) = 81

\* C14: the program starts with heartActive false and an empty list; every
\* call of activateHeart, and no other handler, flips heartActive, so that
\* heartActive is true exactly after an odd number of calls; and in every
\* state heartContainer carries the class 'heart-active' if and only if
\* heartActive is true.
C14_IdleActiveAlternate ==
  /\ ~heartActive /\ particles = << >>
  /\ [][ /\ clicks' # clicks <=> heartActive' # heartActive
         /\ clicks' # clicks <=> lastOp' \in { "activate", "deactivate" }
         /\ clicks' # clicks => clicks' = clicks + 1 ]_vars
  /\ [](heartActive <=> clicks % 2 = 1)
  /\ [](heartClass <=> heartActive)

\* C14 witness: on and off again: heartActive is false and the class is
\* gone after the second call, while the particles of the burst are still
\* in the list.
C14_Witness ==
  /\ lastOp = "deactivate"
  /\ clicks = 2
  /\ ~heartActive
  /\ ~heartClass
  /\ Len(particles) = 80

\* C15: while heartActive is false the button never shows the label or the
\* style 'Click to Hide The Magic': the 3000 ms timeout of an activation
\* that a deactivation has followed does not overwrite the button.
C15_AsClaimed ==
  ~heartActive => (btn.text # TextHide /\ btn.style # StyleHide)

\* C15 witness: the state the code reaches instead: on, off within three seconds,
\* then the timeout of the activation fires (no clearTimeout, no test of
\* heartActive in the callback) and the button says 'Click to Hide The
\* Magic' while heartActive is false and no timeout is left to change it.
C15_Witness ==
  /\ lastOp = "buttonTimer"
  /\ ~heartActive
  /\ clicks = 2
  /\ btnTimers = 0
  /\ btn = [ text |-> TextHide, style |-> StyleHide ]

====
